---------------------------- MODULE Spec2Model ----------------------------
(***************************************************************************)
(* A model of w4tty.py: the Wattpad story -> PDF exporter.                 *)
(*                                                                         *)
(* Strings of the program whose characters matter (node text, attribute    *)
(* values copied to the output, the rendered markup) are sequences of      *)
(* one-character strings.  Two characters that have no TLA+ literal are    *)
(* named: "NBSP" is U+00A0 and "YI" is a syllable of U+A000..U+A48F.        *)
(* Strings that the program only compares or searches (tag names, the     *)
(* declarations of a style attribute, class names, the align attribute)   *)
(* are words of a fixed vocabulary, with lower-casing and the substring   *)
(* test of Python's `in` given as tables over that vocabulary.            *)
(***************************************************************************)
EXTENDS Integers, Sequences, FiniteSets, TLC

VARIABLES
    \* ---- one run of main() ----
    url,        \* args.url: the path segments between "/" (each a char sequence)
    pc,         \* position of main(): "start", "fetch", "build", "done", "failed"
    err,        \* the exception that ended the run, "" while none
    gets,       \* log of the HTTP GETs issued so far, with what each returned
    storyTitle, \* story_title returned by scrape_story_overview
    parts,      \* parts returned by scrape_story_overview
    chapters,   \* the chapters list main() accumulates
    pdf,        \* html_parts handed to write_html by build_pdf, <<>> before
    written,    \* TRUE once pdf.output() has written the file
    \* ---- one call of the renderer on a node ----
    node,       \* the argument node
    inh,        \* the argument inherited_align
    rpc,        \* "input", "inline" (after _render_node), "blocks" (after _render_blocks_from_node)
    inl,        \* result of _render_node
    out         \* result of _render_blocks_from_node

vars == <<url, pc, err, gets, storyTitle, parts, chapters, pdf, written,
          node, inh, rpc, inl, out>>

mainVars == <<url, pc, err, gets, storyTitle, parts, chapters, pdf, written>>

renderVars == <<node, inh, rpc, inl, out>>

-----------------------------------------------------------------------------
(* Characters and strings *)

NBSP == "NBSP"

YI == "YI"

\* str.isspace() on the characters of the model
IsSpace(c) == c \in {" ", "\n", "\t", NBSP}

\* YI_RANGE_PATTERN's character class
IsYi(c) == c = YI

RECURSIVE Replace(_, _, _)
\* str.replace(old, new) for a one-character old
Replace(s, old, new) ==
    IF s = <<>> THEN <<>>
    ELSE (IF Head(s) = old THEN new ELSE <<Head(s)>>) \o Replace(Tail(s), old, new)

RECURSIVE LStrip(_)
LStrip(s) ==
    IF s # <<>> /\ IsSpace(Head(s)) THEN LStrip(Tail(s)) ELSE s

RECURSIVE RStrip(_)
RStrip(s) ==
    IF s # <<>> /\ IsSpace(s[Len(s)]) THEN RStrip(SubSeq(s, 1, Len(s) - 1)) ELSE s

\* str.strip()
Strip(s) == RStrip(LStrip(s))

S_amp == <<"&", "a", "m", "p", ";">>

S_lt == <<"&", "l", "t", ";">>

S_gt == <<"&", "g", "t", ";">>

S_quot == <<"&", "q", "u", "o", "t", ";">>

S_apos == <<"&", "#", "x", "2", "7", ";">>

\* html.escape(s, quote): "&" is replaced first, then "<" and ">", then the quotes
HtmlEscape(s, quote) ==
    LET a == Replace(s, "&", S_amp)
        b == Replace(a, "<", S_lt)
        c == Replace(b, ">", S_gt)
    IN  IF quote THEN Replace(Replace(c, "\"", S_quot), "'", S_apos) ELSE c

\* the literal pieces of markup the program writes
S_br == <<"<", "b", "r", "/", ">">>

S_hr == <<"<", "h", "r", "/", ">">>

S_font == <<"f", "o", "n", "t">>

S_NotoSansYi == <<"N", "o", "t", "o", "S", "a", "n", "s", "Y", "i">>

S_align == <<"a", "l", "i", "g", "n">>

\* the characters of a tag name or of an alignment word written to the output
Chars(w) ==
    CASE w = "b" -> <<"b">>
      [] w = "i" -> <<"i">>
      [] w = "u" -> <<"u">>
      [] w = "a" -> <<"a">>
      [] w = "p" -> <<"p">>
      [] w = "sup" -> <<"s", "u", "p">>
      [] w = "sub" -> <<"s", "u", "b">>
      [] w = "h1" -> <<"h", "1">>
      [] w = "h2" -> <<"h", "2">>
      [] w = "h3" -> <<"h", "3">>
      [] w = "h4" -> <<"h", "4">>
      [] w = "ul" -> <<"u", "l">>
      [] w = "ol" -> <<"o", "l">>
      [] w = "li" -> <<"l", "i">>
      [] w = "div" -> <<"d", "i", "v">>
      [] w = "blockquote" -> <<"b", "l", "o", "c", "k", "q", "u", "o", "t", "e">>
      [] w = "left" -> <<"l", "e", "f", "t">>
      [] w = "center" -> <<"c", "e", "n", "t", "e", "r">>
      [] w = "right" -> <<"r", "i", "g", "h", "t">>
      [] w = "justify" -> <<"j", "u", "s", "t", "i", "f", "y">>

\* f"<{head}>{content}</{close}>"
Element(head, content, close) ==
    <<"<">> \o head \o <<">">> \o content \o <<"<", "/">> \o close \o <<">">>

\* f'{name}="{value}"' behind a tag name
WithAttr(name, attr, value) ==
    name \o <<" ">> \o attr \o <<"=", "\"">> \o value \o <<"\"">>

-----------------------------------------------------------------------------
(* Words: lower-casing and substring search over the vocabulary *)

\* str.lower() on the words of the vocabulary that have upper-case letters
Lower(w) ==
    CASE w = "CENTER" -> "center"
      [] w = "Right" -> "right"
      [] w = "Text-Center" -> "text-center"
      [] w = "BOLD" -> "bold"
      [] w = "FONT-WEIGHT" -> "font-weight"
      [] OTHER -> w

\* the pairs <<w, s>> of lower-case words with s a proper substring of w
SubstrPairs ==
    { <<"text-center", "center">>, <<"align-right", "right">>,
      <<"text-justify", "justify">>, <<"center-right", "center">>,
      <<"center-right", "right">>, <<"right-center", "center">>,
      <<"right-center", "right">>, <<"center !important", "center">>,
      <<"bolder", "bold">>, <<"semibold", "bold">>, <<"is-italic", "italic">>,
      <<"underlined", "underline">>, <<"underline overline", "underline">> }

\* Python's `s in w` for lower-case words
Has(w, s) == w = s \/ <<w, s>> \in SubstrPairs

\* w.startswith("text-align")
StartsWithTextAlign(w) == w \in {"text-align", "text-align-last"}

-----------------------------------------------------------------------------
(* RawNode: bs4's NavigableString and Tag *)

NoAttrs ==
    [style |-> <<>>, align |-> "", class |-> <<>>, href |-> <<>>,
     face |-> <<>>, dfont |-> <<>>, color |-> <<>>]

\* a NavigableString with the given characters
Text(t) ==
    [kind |-> "text", text |-> t, name |-> "", attrs |-> NoAttrs, kids |-> <<>>]

\* a Tag; attrs.style is the sequence of ";"-separated segments "prop:val" of the
\* style attribute, attrs.class the class list, the others the attribute's value
\* (empty when the attribute is absent)
Tag(name, attrs, kids) ==
    [kind |-> "tag", text |-> <<>>, name |-> name, attrs |-> attrs, kids |-> kids]

\* a Tag without attributes
El(name, kids) == Tag(name, NoAttrs, kids)

ALIGN_VALUE_MAP ==
    [w \in {"left", "center", "right", "justify"} |->
        CASE w = "left" -> "L" [] w = "center" -> "C" [] w = "right" -> "R" [] w = "justify" -> "J"]

ALIGN_WORD_MAP ==
    [a \in {"L", "C", "R", "J"} |->
        CASE a = "L" -> "left" [] a = "C" -> "center" [] a = "R" -> "right" [] a = "J" -> "justify"]

\* ALIGN_WORD_MAP.get(a, "left")
AlignWord(a) == IF a \in DOMAIN ALIGN_WORD_MAP THEN ALIGN_WORD_MAP[a] ELSE "left"

RECURSIVE StyleAlignment(_)
\* the loop over style_value.split(";"): the first text-align* segment whose value
\* is a recognized word decides; "" when the loop falls through
StyleAlignment(style) ==
    IF style = <<>> THEN ""
    ELSE LET seg == Head(style)
         IN  IF StartsWithTextAlign(Lower(seg.prop)) /\ Lower(seg.val) \in DOMAIN ALIGN_VALUE_MAP
             THEN ALIGN_VALUE_MAP[Lower(seg.val)]
             ELSE StyleAlignment(Tail(style))

\* ClassAlignment with each word searched over the whole class list in turn
ClassAlignmentWholeList(classes) ==
    IF \E i \in 1..Len(classes) : Has(Lower(classes[i]), "center") THEN "C"
    ELSE IF \E i \in 1..Len(classes) : Has(Lower(classes[i]), "right") THEN "R"
    ELSE IF \E i \in 1..Len(classes) : Has(Lower(classes[i]), "justify") THEN "J"
    ELSE ""

RECURSIVE ClassAlignment(_)
\* the loop over the lower-cased class list: the first class that contains one of
\* the three words decides, center before right before justify within that class
ClassAlignment(classes) ==
    IF classes = <<>> THEN ""
    ELSE LET cls == Lower(Head(classes))
         IN  IF Has(cls, "center") THEN "C"
             ELSE IF Has(cls, "right") THEN "R"
             ELSE IF Has(cls, "justify") THEN "J"
             ELSE ClassAlignment(Tail(classes))

\* _extract_alignment(tag)
ExtractAlignment(tag) ==
    LET byStyle == StyleAlignment(tag.attrs.style)
        alignAttr == Lower(tag.attrs.align)
        byClass == ClassAlignment(tag.attrs.class)
    IN  IF byStyle # "" THEN byStyle
        ELSE IF alignAttr \in DOMAIN ALIGN_VALUE_MAP THEN ALIGN_VALUE_MAP[alignAttr]
        ELSE IF byClass # "" THEN byClass
        ELSE "L"

-----------------------------------------------------------------------------
(* Inline renderer *)

RECURSIVE WrapYiSequences(_)
\* _wrap_yi_sequences(text): every maximal run of Yi syllables is put in a font tag
WrapYiSequences(s) ==
    IF s = <<>> THEN <<>>
    ELSE IF ~IsYi(Head(s)) THEN <<Head(s)>> \o WrapYiSequences(Tail(s))
    ELSE LET run == CHOOSE k \in 1..Len(s) :
                        /\ \A j \in 1..k : IsYi(s[j])
                        /\ (k = Len(s) \/ ~IsYi(s[k + 1]))
         IN  Element(WithAttr(S_font, <<"f", "a", "c", "e">>, S_NotoSansYi),
                     SubSeq(s, 1, run), S_font)
             \o WrapYiSequences(SubSeq(s, run + 1, Len(s)))

\* RenderText with the text escaped a second time
RenderTextEscapedTwice(t) ==
    IF t = <<>> THEN <<>>
    ELSE WrapYiSequences(HtmlEscape(HtmlEscape(Replace(t, NBSP, <<" ">>), FALSE), FALSE))

\* the NavigableString branch of _render_node
RenderText(t) ==
    IF t = <<>> THEN <<>>
    ELSE WrapYiSequences(HtmlEscape(Replace(t, NBSP, <<" ">>), FALSE))

\* apply_wrapper(content, tag_name)
ApplyWrapper(content, tagName) == Element(Chars(tagName), content, Chars(tagName))

\* style_attr contains the word: a search of the whole lower-cased attribute
StyleHas(style, s) ==
    \E i \in 1..Len(style) : Has(Lower(style[i].prop), s) \/ Has(Lower(style[i].val), s)

\* any(s in cls for cls in classes)
ClassHas(classes, s) == \E i \in 1..Len(classes) : Has(Lower(classes[i]), s)

\* the four wrappers chosen by the tag name
WrapByName(name, inner) ==
    LET a == IF name \in {"b", "strong"} THEN ApplyWrapper(inner, "b") ELSE inner
        b == IF name \in {"i", "em"} THEN ApplyWrapper(a, "i") ELSE a
        c == IF name = "u" THEN ApplyWrapper(b, "u") ELSE b
    IN  IF name \in {"sup", "sub"} THEN ApplyWrapper(c, name) ELSE c

\* the three wrappers chosen by the style attribute
WrapByStyle(style, inner) ==
    LET a == IF StyleHas(style, "font-weight") /\ StyleHas(style, "bold")
             THEN ApplyWrapper(inner, "b") ELSE inner
        b == IF StyleHas(style, "font-style") /\ StyleHas(style, "italic")
             THEN ApplyWrapper(a, "i") ELSE a
    IN  IF StyleHas(style, "text-decoration") /\ StyleHas(style, "underline")
        THEN ApplyWrapper(b, "u") ELSE b

\* the three wrappers chosen by the class list
WrapByClass(classes, inner) ==
    LET a == IF ClassHas(classes, "bold") THEN ApplyWrapper(inner, "b") ELSE inner
        b == IF ClassHas(classes, "italic") THEN ApplyWrapper(a, "i") ELSE a
    IN  IF ClassHas(classes, "underline") THEN ApplyWrapper(b, "u") ELSE b

\* the link wrapper
WrapLink(n, inner) ==
    IF n.name = "a" /\ n.attrs.href # <<>>
    THEN Element(WithAttr(<<"a">>, <<"h", "r", "e", "f">>, HtmlEscape(n.attrs.href, TRUE)),
                 inner, <<"a">>)
    ELSE inner

\* font_face = node.get("face") or node.get("data-font"), with the span fallback
FontFace(n) ==
    LET first == IF n.attrs.face # <<>> THEN n.attrs.face ELSE n.attrs.dfont
    IN  IF first = <<>> /\ n.name = "span" /\ n.attrs.dfont # <<>> THEN n.attrs.dfont
        ELSE first

\* the font-face wrapper
WrapFontFace(n, inner) ==
    IF FontFace(n) # <<>>
    THEN Element(WithAttr(S_font, <<"f", "a", "c", "e">>, HtmlEscape(FontFace(n), TRUE)),
                 inner, S_font)
    ELSE inner

\* the font-color wrapper
WrapFontColor(n, inner) ==
    IF n.name = "font" /\ n.attrs.color # <<>>
    THEN Element(WithAttr(S_font, <<"c", "o", "l", "o", "r">>, HtmlEscape(n.attrs.color, TRUE)),
                 inner, S_font)
    ELSE inner

\* WrapAll with the class wrappers applied before the style wrappers
WrapAllClassFirst(n, inner) ==
    WrapFontColor(n, WrapFontFace(n, WrapLink(n,
        WrapByStyle(n.attrs.style, WrapByClass(n.attrs.class, WrapByName(n.name, inner))))))

\* lines 189-235 of _render_node: the wrappers around the rendered children
WrapAll(n, inner) ==
    WrapFontColor(n, WrapFontFace(n, WrapLink(n,
        WrapByClass(n.attrs.class, WrapByStyle(n.attrs.style, WrapByName(n.name, inner))))))

RECURSIVE RenderNode(_)
RECURSIVE RenderKids(_)
\* _render_node(node)
RenderNode(n) ==
    IF n.kind = "text" THEN RenderText(n.text)
    ELSE IF n.name = "br" THEN S_br
    ELSE IF n.name = "hr" THEN S_hr
    ELSE LET inner == RenderKids(n.kids)
         IN  IF inner = <<>> /\ n.name # "img" THEN <<>> ELSE WrapAll(n, inner)

\* "".join(_render_node(child) for child in children)
RenderKids(kids) ==
    IF kids = <<>> THEN <<>> ELSE RenderNode(Head(kids)) \o RenderKids(Tail(kids))

\* _render_inline_children(tag)
RenderInlineChildren(tag) == RenderKids(tag.kids)

-----------------------------------------------------------------------------
(* Block renderer *)

\* NodeAlign without the fallback to the inherited alignment
NodeAlignOwnOnly(n, inherited) == ExtractAlignment(n)

\* node_align after lines 256-258
NodeAlign(n, inherited) ==
    IF ExtractAlignment(n) = "L" THEN inherited ELSE ExtractAlignment(n)

\* align_attr of line 260, as the text behind the tag name
WithAlign(name, nodeAlign) ==
    IF nodeAlign # "L" THEN WithAttr(name, S_align, Chars(AlignWord(nodeAlign))) ELSE name

\* BlockOf without the test for empty content
BlockOfAlways(name, nodeAlign, inner) ==
    << Element(WithAlign(Chars(name), nodeAlign), inner, Chars(name)) >>

\* f'<{name}{align_attr}>{inner}</{name}>' when inner is not empty, else nothing
BlockOf(name, nodeAlign, inner) ==
    IF inner # <<>>
    THEN << Element(WithAlign(Chars(name), nodeAlign), inner, Chars(name)) >>
    ELSE <<>>

\* ListItems without the test for empty items
RECURSIVE ListItemsKeepEmpty(_)
ListItemsKeepEmpty(kids) ==
    IF kids = <<>> THEN <<>>
    ELSE LET k == Head(kids)
         IN  (IF k.kind = "tag" /\ k.name = "li"
              THEN Element(<<"l", "i">>, Strip(RenderInlineChildren(k)), <<"l", "i">>) ELSE <<>>)
             \o ListItemsKeepEmpty(Tail(kids))

RECURSIVE ListItems(_)
\* the loop over node.find_all("li", recursive=False)
ListItems(kids) ==
    IF kids = <<>> THEN <<>>
    ELSE LET k == Head(kids)
             itemInner == Strip(RenderInlineChildren(k))
         IN  (IF k.kind = "tag" /\ k.name = "li" /\ itemInner # <<>>
              THEN Element(<<"l", "i">>, itemInner, <<"l", "i">>) ELSE <<>>)
             \o ListItems(Tail(kids))

\* the ul/ol branch
ListBlock(name, nodeAlign, kids) ==
    LET items == ListItems(kids)
        list == Element(Chars(name), items, Chars(name))
    IN  IF items = <<>> THEN <<>>
        ELSE IF nodeAlign # "L"
        THEN << Element(WithAlign(<<"d", "i", "v">>, nodeAlign), list, <<"d", "i", "v">>) >>
        ELSE << list >>

\* DivWrap wrapping only when the alignment differs from the inherited one
DivWrapWhenDiffers(nodeAlign, inherited, childBlocks) ==
    IF nodeAlign # inherited
    THEN [k \in 1..Len(childBlocks) |->
            Element(WithAlign(<<"d", "i", "v">>, nodeAlign), childBlocks[k], <<"d", "i", "v">>)]
    ELSE childBlocks

\* the return of the div branch when child_blocks is not empty
DivWrap(nodeAlign, inherited, childBlocks) ==
    IF nodeAlign # "L"
    THEN [k \in 1..Len(childBlocks) |->
            Element(WithAlign(<<"d", "i", "v">>, nodeAlign), childBlocks[k], <<"d", "i", "v">>)]
    ELSE childBlocks

RECURSIVE RenderBlocksFromNode(_, _)
RECURSIVE ChildBlocks(_, _)
\* _render_blocks_from_node(node, inherited_align)
RenderBlocksFromNode(n, inherited) ==
    IF n.kind = "text"
    THEN LET content == Strip(RenderNode(n))
         IN  IF content # <<>>
             THEN << Element(WithAttr(<<"p">>, S_align, Chars(AlignWord(inherited))),
                             content, <<"p">>) >>
             ELSE <<>>
    ELSE LET nodeAlign == NodeAlign(n, inherited)
             childBlocks == IF n.name = "div" THEN ChildBlocks(n.kids, nodeAlign) ELSE <<>>
             inner == Strip(RenderInlineChildren(n))
         IN  IF n.name = "div" /\ childBlocks # <<>>
                 THEN DivWrap(nodeAlign, inherited, childBlocks)
             ELSE IF n.name \in {"p", "section", "article"} THEN BlockOf("p", nodeAlign, inner)
             ELSE IF n.name \in {"h1", "h2", "h3", "h4"} THEN BlockOf(n.name, nodeAlign, inner)
             ELSE IF n.name = "blockquote" THEN BlockOf("blockquote", nodeAlign, inner)
             ELSE IF n.name \in {"ul", "ol"} THEN ListBlock(n.name, nodeAlign, n.kids)
             ELSE IF n.name = "hr" THEN << S_hr >>
             ELSE BlockOf("p", nodeAlign, inner)

\* the loop of the div branch: child_blocks.extend(...) over node.children
ChildBlocks(kids, nodeAlign) ==
    IF kids = <<>> THEN <<>>
    ELSE RenderBlocksFromNode(Head(kids), nodeAlign) \o ChildBlocks(Tail(kids), nodeAlign)

-----------------------------------------------------------------------------
(* URLs, titles and the overview page *)

Digits == {"0", "1", "2", "3", "4", "5", "6", "7", "8", "9"}

\* [p for p in url.split("/") if p]
NonEmptyPieces(u) == SelectSeq(u, LAMBDA p : p # <<>>)

\* re.match(r"^\d+", p)
StartsWithDigit(p) == p # <<>> /\ Head(p) \in Digits

\* p.split("-")[0]
BeforeDash(p) ==
    IF \E i \in 1..Len(p) : p[i] = "-"
    THEN SubSeq(p, 1, (CHOOSE i \in 1..Len(p) : p[i] = "-" /\ \A j \in 1..(i - 1) : p[j] # "-") - 1)
    ELSE p

\* whether extract_story_id(u) returns (TRUE) or raises ValueError (FALSE)
HasStoryId(u) == \E i \in 1..Len(NonEmptyPieces(u)) : StartsWithDigit(NonEmptyPieces(u)[i])

\* extract_story_id(u) when it returns: the last piece that starts with a digit, cut
\* at its first "-"
ExtractStoryId(u) ==
    LET ps == NonEmptyPieces(u)
        last == CHOOSE i \in 1..Len(ps) :
                    StartsWithDigit(ps[i]) /\ \A j \in (i + 1)..Len(ps) : ~StartsWithDigit(ps[j])
    IN  BeforeDash(ps[last])

\* urljoin(base, href) for an href that is a path: an absolute path replaces the
\* path of base, a relative one replaces its last piece
UrlJoin(base, href) ==
    IF href.abs THEN SubSeq(base, 1, 3) \o href.segs
    ELSE (IF Len(base) > 3 THEN SubSeq(base, 1, Len(base) - 1) ELSE base) \o href.segs

\* _strip_wattpad_suffix(value), value being raw.base followed, when raw.suffix, by
\* " - Wattpad": both branches leave the stripped base
StripWattpadSuffix(raw) == Strip(raw.base)

\* a string that PART_DATE_PATTERN matches, such as "Mon, Jan 1, 2024", as one symbol
DATE == "DATE"

RECURSIVE RStripSeparators(_)
\* re.sub(r'[\s,:-]+$', '', s)
RStripSeparators(s) ==
    IF s # <<>> /\ (IsSpace(s[Len(s)]) \/ s[Len(s)] \in {",", ":", "-"})
    THEN RStripSeparators(SubSeq(s, 1, Len(s) - 1)) ELSE s

RECURSIVE CollapseSpaces(_)
\* re.sub(r'\s{2,}', ' ', s)
CollapseSpaces(s) ==
    IF s = <<>> THEN <<>>
    ELSE IF Len(s) >= 2 /\ IsSpace(s[1]) /\ IsSpace(s[2])
    THEN CollapseSpaces(<<" ">> \o LStrip(s))
    ELSE <<Head(s)>> \o CollapseSpaces(Tail(s))

\* _clean_part_title(raw)
CleanPartTitle(raw) ==
    LET noDate == IF raw # <<>> /\ raw[Len(raw)] = DATE THEN SubSeq(raw, 1, Len(raw) - 1) ELSE raw
    IN  CollapseSpaces(Strip(RStripSeparators(Strip(noDate))))

-----------------------------------------------------------------------------
(* Document assembly *)

S_h1Center == WithAttr(<<"h", "1">>, S_align, Chars("center"))

S_h2Center == WithAttr(<<"h", "2">>, S_align, Chars("center"))

\* ChapterParts with the heading written for an empty title too
ChapterPartsAlwaysHeaded(chapter) ==
    << Element(S_h2Center, HtmlEscape(chapter.title, TRUE), <<"h", "2">>) >>
    \o chapter.blocks \o << S_br >>

\* what one chapter adds to html_parts: its heading when it has a title, its
\* blocks, one "<br/>"
ChapterParts(chapter) ==
    (IF chapter.title # <<>>
     THEN << Element(S_h2Center, HtmlEscape(chapter.title, TRUE), <<"h", "2">>) >>
     ELSE <<>>)
    \o chapter.blocks \o << S_br >>

RECURSIVE AllChapterParts(_)
\* the loop `for chapter in chapters` of build_pdf
AllChapterParts(chs) ==
    IF chs = <<>> THEN <<>> ELSE ChapterParts(Head(chs)) \o AllChapterParts(Tail(chs))

\* html_parts of build_pdf(story_title, chapters, output)
HtmlParts(title, chs) ==
    << Element(S_h1Center, HtmlEscape(title, TRUE), <<"h", "1">>) >> \o AllChapterParts(chs)

-----------------------------------------------------------------------------
(* What the site can answer *)

MaxParts == 2

S_https == <<"h", "t", "t", "p", "s", ":">>

S_host == <<"w", ".", "c", "o", "m">>

S_story == <<"s", "t", "o", "r", "y">>

\* the URLs given on the command line: a canonical story link, a link with no
\* numeric piece, a link whose numeric piece is not the last one
Urls ==
    { <<S_https, <<>>, S_host, S_story, <<"1", "2", "-", "a">>>>,
      <<S_https, <<>>, S_host, S_story, <<"m", "y">>>>,
      <<S_https, <<>>, S_host, <<"7">>, <<"p">>>> }

NoTitle == [present |-> FALSE, base |-> <<>>, suffix |-> FALSE]

RawTitle(base, suffix) == [present |-> TRUE, base |-> base, suffix |-> suffix]

\* the title sources of an overview page: og:title, the first h1/h2, <title>
TitleSources ==
    { [og |-> RawTitle(<<"A", "&", "\"">>, TRUE), heading |-> NoTitle, tag |-> NoTitle],
      [og |-> NoTitle, heading |-> RawTitle(<<" ">>, FALSE), tag |-> RawTitle(<<"T", " ">>, TRUE)],
      [og |-> RawTitle(<<>>, FALSE), heading |-> RawTitle(<<"H">>, FALSE), tag |-> NoTitle],
      [og |-> NoTitle, heading |-> NoTitle, tag |-> NoTitle] }

\* the links of the table of contents: the href as a path and the link text
Anchors ==
    { [href |-> [abs |-> TRUE, segs |-> << <<"3", "4", "-", "c">> >>], text |-> <<"C", " ", "1">>],
      [href |-> [abs |-> TRUE, segs |-> << <<"5">>, <<"x">> >>], text |-> <<DATE, " ", DATE>>],
      [href |-> [abs |-> FALSE, segs |-> << <<"6", "-">> >>], text |-> <<"-", " ", DATE>>],
      [href |-> [abs |-> TRUE, segs |-> << <<"c", "h">> >>], text |-> <<"C">>] }

RECURSIVE SeqsUpTo(_, _)
\* the sequences of at most n elements of S
SeqsUpTo(S, n) ==
    IF n = 0 THEN {<<>>}
    ELSE LET shorter == SeqsUpTo(S, n - 1)
         IN  shorter \cup {Append(q, x) : q \in shorter, x \in S}

OverviewPages ==
    { [status |-> "ok", titles |-> t, anchors |-> a] :
        t \in TitleSources, a \in SeqsUpTo(Anchors, MaxParts) }
    \cup { [status |-> "httperr", titles |-> CHOOSE t \in TitleSources : TRUE, anchors |-> <<>>] }

AlignCenter == [NoAttrs EXCEPT !.style = <<[prop |-> "text-align", val |-> "center"]>>]

\* chapter bodies as BeautifulSoup parses them (soup.contents)
Bodies ==
    { <<>>,
      << Text(<<" ", "\n">>) >>,
      << El("p", <<Text(<<"x">>)>>), Text(<<"\n">>), El("p", <<El("b", <<Text(<<"<">>)>>)>>) >>,
      << El("p", <<>>) >>,
      << Tag("div", AlignCenter, << El("p", <<Text(<<"y">>)>>), El("hr", <<>>) >>) >> }

\* body.strip() is empty: the text has nothing but white space
BodyBlank(body) ==
    \A i \in 1..Len(body) : body[i].kind = "text" /\ Strip(body[i].text) = <<>>

\* the answers to the GET of a chapter: an HTTP error, a document that is the
\* body, a JSON payload with the body under "text" or without that key
PartResponses ==
    { [status |-> "httperr", json |-> FALSE, body |-> <<>>] }
    \cup { [status |-> "ok", json |-> FALSE, body |-> b] : b \in Bodies }
    \cup { [status |-> "ok", json |-> TRUE, body |-> b] :
             b \in {<<>>, << El("h2", <<Text(<<"z">>)>>) >>} }

-----------------------------------------------------------------------------
(* scrape_story_overview *)

\* the story title of lines 341-352: og:title, else the first heading, else <title>
PageTitle(t) ==
    LET fromOg == IF t.og.present THEN StripWattpadSuffix(t.og) ELSE <<>>
        fromHeading == IF t.heading.present THEN StripWattpadSuffix(t.heading) ELSE <<>>
        fromTag == IF t.tag.present THEN StripWattpadSuffix(t.tag) ELSE <<>>
    IN  IF fromOg # <<>> THEN fromOg
        ELSE IF fromHeading # <<>> THEN fromHeading
        ELSE fromTag

\* the dicts appended by the loop of lines 357-366, when extract_story_id raises
\* for none of the links
PageParts(u, anchors) ==
    [k \in 1..Len(anchors) |->
        [id |-> ExtractStoryId(UrlJoin(u, anchors[k].href)),
         title |-> CleanPartTitle(anchors[k].text),
         url |-> UrlJoin(u, anchors[k].href)]]

\* the GET of line 337 comes first; the page is then parsed
ScrapeStoryOverview ==
    /\ pc = "start"
    /\ \E page \in OverviewPages :
        /\ gets' = Append(gets, [kind |-> "overview", id |-> <<>>, status |-> page.status,
                                 blank |-> FALSE])
        /\ IF page.status = "httperr"
           THEN /\ pc' = "failed" /\ err' = "HTTPError"
                /\ UNCHANGED <<storyTitle, parts>>
           ELSE IF PageTitle(page.titles) = <<>>
           THEN /\ pc' = "failed" /\ err' = "RuntimeError: no title"
                /\ UNCHANGED <<storyTitle, parts>>
           ELSE IF \E k \in 1..Len(page.anchors) : ~HasStoryId(UrlJoin(url, page.anchors[k].href))
           THEN /\ pc' = "failed" /\ err' = "ValueError: no story ID"
                /\ UNCHANGED <<storyTitle, parts>>
           ELSE IF page.anchors = <<>>
           THEN /\ pc' = "failed" /\ err' = "RuntimeError: no parts"
                /\ UNCHANGED <<storyTitle, parts>>
           ELSE /\ pc' = "fetch" /\ err' = ""
                /\ storyTitle' = PageTitle(page.titles)
                /\ parts' = PageParts(url, page.anchors)
    /\ UNCHANGED <<url, chapters, pdf, written>>
    /\ UNCHANGED renderVars

-----------------------------------------------------------------------------
(* fetch_part_blocks and the loop of main *)

RECURSIVE BodyBlocks(_)
\* the loop over soup.contents
BodyBlocks(body) ==
    IF body = <<>> THEN <<>>
    ELSE RenderBlocksFromNode(Head(body), "L") \o BodyBlocks(Tail(body))

S_Part == <<"P", "a", "r", "t", " ">>

\* part_title of line 409
MainPartTitle(part) ==
    CleanPartTitle(IF part.title # <<>> THEN part.title ELSE S_Part \o part.id)

\* FetchFails without the empty-response check
FetchFailsOnHttpErrorOnly(resp) == resp.status = "httperr"

\* whether fetch_part_blocks raises on this answer: raise_for_status, or the
\* empty-response check of line 326
FetchFails(resp) == resp.status = "httperr" \/ BodyBlank(resp.body)

\* one iteration of the loop of main: the GET of the next part, then either the
\* exception that ends the run or the append to chapters
FetchPartBlocks ==
    /\ pc = "fetch"
    /\ Len(chapters) < Len(parts)
    /\ LET part == parts[Len(chapters) + 1]
       IN  \E resp \in PartResponses :
            /\ gets' = Append(gets, [kind |-> "part", id |-> part.id, status |-> resp.status,
                                     blank |-> resp.status = "ok" /\ BodyBlank(resp.body)])
            /\ IF FetchFails(resp)
               THEN /\ pc' = "failed"
                    /\ err' = IF resp.status = "httperr" THEN "HTTPError"
                              ELSE "RuntimeError: empty response"
                    /\ UNCHANGED chapters
               ELSE /\ chapters' = Append(chapters, [title |-> MainPartTitle(part),
                                                     blocks |-> BodyBlocks(resp.body)])
                    /\ pc' = "fetch" /\ err' = ""
    /\ UNCHANGED <<url, storyTitle, parts, pdf, written>>
    /\ UNCHANGED renderVars

\* lines 413-417 of main with build_pdf: the fonts are registered first (which
\* raises when no .ttf file lies beside the script), then the document is
\* written; the output path of lines 413-415 names the file and changes nothing
\* of what is written
BuildPdf ==
    /\ pc = "fetch"
    /\ Len(chapters) = Len(parts)
    /\ \E fonts \in BOOLEAN :
        IF fonts
        THEN /\ pdf' = HtmlParts(storyTitle, chapters)
             /\ written' = TRUE
             /\ pc' = "done" /\ err' = ""
        ELSE /\ pc' = "failed" /\ err' = "FileNotFoundError"
             /\ UNCHANGED <<pdf, written>>
    /\ UNCHANGED <<url, gets, storyTitle, parts, chapters>>
    /\ UNCHANGED renderVars

\* the renderer variables while main runs
RenderIdle ==
    /\ node = Text(<<>>) /\ inh = "L" /\ rpc = "idle" /\ inl = <<>> /\ out = <<>>

Init ==
    /\ url \in Urls
    /\ pc = "start" /\ err = "" /\ gets = <<>>
    /\ storyTitle = <<>> /\ parts = <<>> /\ chapters = <<>>
    /\ pdf = <<>> /\ written = FALSE
    /\ RenderIdle

Next == ScrapeStoryOverview \/ FetchPartBlocks \/ BuildPdf

Spec == Init /\ [][Next]_vars

-----------------------------------------------------------------------------
(* One call of the renderer: the nodes it is given *)

MaxTextLen == 2

MaxKids == 3

MaxDepth == 2

Aligns == {"L", "C", "R", "J"}

TextAlphabet == {"a", " ", "&", "<", ">", "\"", NBSP, YI}

S_AandB == <<"A", " ", "&", " ", "B">>

\* the texts of the leaves: every short text, and a few longer ones
Texts ==
    SeqsUpTo(TextAlphabet, MaxTextLen)
    \cup { S_AandB, S_amp, <<"<", "b", ">", "&", "<", "/", "b", ">">>, <<YI, YI, "a", YI>> }

WithHref(h) == [NoAttrs EXCEPT !.href = h]

S_link == <<"/", "u", "?", "a", "=", "1", "&", "b", "=", "\"", "<", "'">>

\* text leaves, alone and inside inline elements
TextNodes ==
    UNION { { Text(t),
              El("b", <<Text(t)>>),
              Tag("a", WithHref(S_link), <<Text(t)>>),
              El("span", <<Text(t), El("br", <<>>), El("i", <<Text(S_AandB)>>)>>) } : t \in Texts }

Seg(prop, val) == [prop |-> prop, val |-> val]

\* style attributes that bear on the inline wrappers
WrapStyles ==
    { <<>>,
      <<Seg("font-weight", "bold")>>,
      <<Seg("font-style", "italic"), Seg("text-decoration", "underline overline")>>,
      <<Seg("FONT-WEIGHT", "bolder"), Seg("font-style", "italic"), Seg("text-decoration", "underline")>>,
      <<Seg("font-weight", "700")>>,
      <<Seg("font-weight", "normal"), Seg("font-family", "semibold")>> }

WrapClasses ==
    { <<>>, <<"BOLD">>, <<"is-italic", "underlined">>, <<"lead", "underline", "italic", "bold">> }

S_face == <<"Y", "i", "&">>

S_dfont == <<"D", "\"">>

S_color == <<"#", "f", "0", "0">>

\* face and data-font attributes
FontAttrs ==
    { [face |-> <<>>, dfont |-> <<>>], [face |-> S_face, dfont |-> S_dfont],
      [face |-> <<>>, dfont |-> S_dfont] }

WrapNames == {"b", "strong", "i", "em", "u", "sup", "sub", "a", "span", "font", "img"}

\* one element around the text "x" (an img has no children), with every
\* combination of the attributes the wrappers look at
WrapNodes ==
    { Tag(n, [NoAttrs EXCEPT !.style = st, !.class = cl, !.face = f.face, !.dfont = f.dfont,
                             !.href = h, !.color = c],
          IF n = "img" THEN <<>> ELSE <<Text(<<"x">>)>>) :
        n \in WrapNames, st \in WrapStyles, cl \in WrapClasses, f \in FontAttrs,
        h \in {<<>>, S_link}, c \in {<<>>, S_color} }

\* style attributes that bear on the alignment
AlignStyles ==
    { <<>>,
      <<Seg("text-align", "center")>>,
      <<Seg("text-align", "left")>>,
      <<Seg("font-weight", "bold"), Seg("text-align", "CENTER")>>,
      <<Seg("text-align", "center !important")>>,
      <<Seg("text-align-last", "right")>>,
      <<Seg("text-align", "middle"), Seg("text-align", "justify"), Seg("text-align", "right")>>,
      <<Seg("text-align", "")>> }

AlignAttrValues == {"", "Right", "left", "middle", "justify"}

AlignClasses ==
    { <<>>, <<"text-center">>, <<"align-right", "text-center">>, <<"center-right">>,
      <<"right-center">>, <<"lead", "text-justify", "Text-Center">>, <<"lead">> }

AlignAttrs ==
    { [NoAttrs EXCEPT !.style = st, !.align = al, !.class = cl] :
        st \in AlignStyles, al \in AlignAttrValues, cl \in AlignClasses }

\* a paragraph, a heading and a div with every combination of alignment attributes
AlignedNodes ==
    { Tag(n, a, <<Text(<<"x">>)>>) : n \in {"p", "h3", "div"}, a \in AlignAttrs }

\* the alignments of the nested nodes: none, center and left by style, right by class
NestAttrs ==
    { NoAttrs, AlignCenter, [NoAttrs EXCEPT !.style = <<Seg("text-align", "left")>>],
      [NoAttrs EXCEPT !.class = <<"align-right">>] }

RECURSIVE DivChains(_)
\* divs nested d deep: each holds the shallower chain (at the bottom a paragraph or
\* a text) and one more paragraph with no alignment of its own
DivChains(d) ==
    IF d = 0
    THEN { Tag("p", a, <<Text(<<"x">>)>>) : a \in NestAttrs } \cup { Text(<<"x">>) }
    ELSE { Tag("div", a, <<inner, El("p", <<Text(<<"y">>)>>)>>) :
             a \in NestAttrs, inner \in DivChains(d - 1) }

NestedNodes == UNION { DivChains(d) : d \in 1..MaxDepth }

S_One == <<"O", "n", "e">>

S_Two == <<"T", "w", "o">>

\* what a list may hold: items with and without content, and children that are
\* not its direct li children
ListKids ==
    { El("li", <<Text(S_One)>>), El("li", <<>>), El("li", <<Text(S_Two)>>),
      El("li", <<Text(<<" ">>), El("b", <<Text(<<"&">>)>>)>>), El("li", <<Text(<<" ">>)>>),
      El("div", <<El("li", <<Text(<<"D">>)>>)>>) }

ListNodes ==
    { Tag(n, a, kids) : n \in {"ul", "ol"}, a \in {NoAttrs, AlignCenter},
                        kids \in SeqsUpTo(ListKids, MaxKids) }

\* children without text, or with white space for text
BlankKids ==
    { Text(<<>>), Text(<<" ", NBSP>>), El("br", <<>>), El("hr", <<>>),
      Tag("img", [NoAttrs EXCEPT !.class = <<"bold">>], <<>>),
      El("b", <<Text(<<" ">>)>>), El("i", <<Text(<<>>), El("span", <<>>)>>),
      Tag("p", [NoAttrs EXCEPT !.class = <<"bold">>], <<Text(<<"\n">>)>>),
      El("li", <<>>) }

BlankNodes ==
    { Tag(n, a, kids) : n \in {"p", "div", "span", "h1", "blockquote", "ul", "li", "img"},
                        a \in {NoAttrs, [AlignCenter EXCEPT !.class = <<"bold">>]},
                        kids \in SeqsUpTo(BlankKids, MaxKids - 1) }

\* the calls of the renderer: a node and the alignment it inherits
RenderInputs ==
    { <<n, "L">> : n \in TextNodes \cup WrapNodes \cup BlankNodes }
    \cup { <<n, a>> : n \in AlignedNodes \cup NestedNodes, a \in Aligns }
    \cup { <<n, a>> : n \in ListNodes, a \in {"L", "R"} }

\* the variables of main while the renderer is called on its own
MainIdle ==
    /\ url = <<>> /\ pc = "idle" /\ err = "" /\ gets = <<>>
    /\ storyTitle = <<>> /\ parts = <<>> /\ chapters = <<>>
    /\ pdf = <<>> /\ written = FALSE

InitRender ==
    /\ \E input \in RenderInputs : node = input[1] /\ inh = input[2]
    /\ rpc = "input" /\ inl = <<>> /\ out = <<>>
    /\ MainIdle

\* a call of _render_node(node)
DoRenderNode ==
    /\ rpc = "input"
    /\ inl' = RenderNode(node)
    /\ rpc' = "inline"
    /\ UNCHANGED <<node, inh, out>>
    /\ UNCHANGED mainVars

\* a call of _render_blocks_from_node(node, inh)
DoRenderBlocks ==
    /\ rpc = "input"
    /\ out' = RenderBlocksFromNode(node, inh)
    /\ rpc' = "blocks"
    /\ UNCHANGED <<node, inh, inl>>
    /\ UNCHANGED mainVars

NextRender == DoRenderNode \/ DoRenderBlocks

SpecRender == InitRender /\ [][NextRender]_vars

-----------------------------------------------------------------------------
(* Reading rendered markup back: what the properties below say about it *)

Range(s) == { s[i] : i \in 1..Len(s) }

Min(S) == CHOOSE x \in S : \A y \in S : x <= y

RECURSIVE ScanFrom(_, _)
\* the markup s from position i on, read as a layout renderer reads it: tags are
\* the text between a "<" and the next ">", text is everything else; ok says that
\* no "<" is left unclosed or nested in a tag and no ">" stands in the text
ScanFrom(s, i) ==
    IF i > Len(s) THEN [tags |-> <<>>, text |-> <<>>, ok |-> TRUE]
    ELSE IF s[i] = "<"
    THEN LET closes == { j \in (i + 1)..Len(s) : s[j] = ">" }
         IN  IF closes = {} THEN [tags |-> <<>>, text |-> <<>>, ok |-> FALSE]
             ELSE LET j == Min(closes)
                      rest == ScanFrom(s, j + 1)
                      body == SubSeq(s, i + 1, j - 1)
                  IN  [tags |-> <<body>> \o rest.tags, text |-> rest.text,
                       ok |-> rest.ok /\ "<" \notin Range(body)]
    ELSE LET rest == ScanFrom(s, i + 1)
         IN  [tags |-> rest.tags, text |-> <<s[i]>> \o rest.text, ok |-> rest.ok /\ s[i] # ">"]

Scan(s) == ScanFrom(s, 1)

\* s has the characters of p from position i on
HasAt(s, i, p) == i + Len(p) - 1 <= Len(s) /\ SubSeq(s, i, i + Len(p) - 1) = p

RECURSIVE Unescape(_)
\* the text an escaped text stands for: each entity read once, left to right
Unescape(s) ==
    IF s = <<>> THEN <<>>
    ELSE IF HasAt(s, 1, S_amp) THEN <<"&">> \o Unescape(SubSeq(s, Len(S_amp) + 1, Len(s)))
    ELSE IF HasAt(s, 1, S_lt) THEN <<"<">> \o Unescape(SubSeq(s, Len(S_lt) + 1, Len(s)))
    ELSE IF HasAt(s, 1, S_gt) THEN <<">">> \o Unescape(SubSeq(s, Len(S_gt) + 1, Len(s)))
    ELSE IF HasAt(s, 1, S_quot) THEN <<"\"">> \o Unescape(SubSeq(s, Len(S_quot) + 1, Len(s)))
    ELSE IF HasAt(s, 1, S_apos) THEN <<"'">> \o Unescape(SubSeq(s, Len(S_apos) + 1, Len(s)))
    ELSE <<Head(s)>> \o Unescape(Tail(s))

\* every "&" of s starts one of the entities
EntitiesOk(s, entities) ==
    \A i \in 1..Len(s) : s[i] = "&" => \E e \in entities : HasAt(s, i, e)

\* the name of a tag: its text up to the first space
TagName(tag) ==
    IF " " \in Range(tag) THEN SubSeq(tag, 1, Min({ i \in 1..Len(tag) : tag[i] = " " }) - 1)
    ELSE tag

\* the value of the attribute of a tag that has one: the text between the first
\* quote and the closing quote
AttrValue(tag) ==
    LET q == Min({ i \in 1..Len(tag) : tag[i] = "\"" })
    IN  SubSeq(tag, q + 1, Len(tag) - 1)

\* the name of the attribute of a tag that has one
AttrName(tag) ==
    LET sp == Min({ i \in 1..Len(tag) : tag[i] = " " })
        eq == Min({ i \in 1..Len(tag) : tag[i] = "=" })
    IN  SubSeq(tag, sp + 1, eq - 1)

HasAttr(tag) == " " \in Range(tag)

\* a tag with an attribute is name, space, attribute="value", the value holding no
\* quote and no "&" but those of entities
AttrTagOk(tag) ==
    HasAttr(tag) =>
        /\ "\"" \in Range(tag) /\ "=" \in Range(tag)
        /\ tag[Len(tag)] = "\""
        /\ "\"" \notin Range(AttrValue(tag))
        /\ EntitiesOk(AttrValue(tag), {S_amp, S_lt, S_gt, S_quot, S_apos})

\* the tags _render_node writes
InlineTagNames ==
    LET names == { Chars(w) : w \in {"b", "i", "u", "sup", "sub", "a"} } \cup {S_font}
    IN  names \cup { <<"/">> \o n : n \in names } \cup { <<"b", "r", "/">>, <<"h", "r", "/">> }

RECURSIVE PlainText(_)
RECURSIVE PlainTextOfKids(_)
\* the text of a node as a reader sees it: its text leaves in order, each
\* non-breaking space a space
PlainText(n) ==
    IF n.kind = "text" THEN Replace(n.text, NBSP, <<" ">>) ELSE PlainTextOfKids(n.kids)

PlainTextOfKids(kids) ==
    IF kids = <<>> THEN <<>> ELSE PlainText(Head(kids)) \o PlainTextOfKids(Tail(kids))

RECURSIVE HasElement(_, _)
\* n, or a node below it, is an element with one of the names
HasElement(n, names) ==
    /\ n.kind = "tag"
    /\ \/ n.name \in names
       \/ \E i \in 1..Len(n.kids) : HasElement(n.kids[i], names)

-----------------------------------------------------------------------------
(* C1 *)

S_bAandB ==
    <<"<", "b", ">", "A", " ", "&", "a", "m", "p", ";", " ", "B", "<", "/", "b", ">">>

\* C1: in the output of _render_node every "<" and ">" belongs to a tag the
\* renderer wrote, every "&" of the text is the start of one entity, and reading
\* the entities back once gives the text of the leaves again (each "<", "&", ">"
\* escaped exactly once); the leaf "A & B" inside <b> renders to <b>A &amp; B</b>
C1_TextEscapedOnce ==
    rpc = "inline" =>
        LET sc == Scan(inl)
        IN  /\ sc.ok
            /\ \A k \in 1..Len(sc.tags) :
                   TagName(sc.tags[k]) \in InlineTagNames /\ AttrTagOk(sc.tags[k])
            /\ EntitiesOk(sc.text, {S_amp, S_lt, S_gt})
            /\ Unescape(sc.text) = PlainText(node)
            /\ (node = El("b", <<Text(S_AandB)>>) => inl = S_bAandB)

\* C1 witness: the leaf "A & B" inside <b> has been rendered
C1_Witness ==
    /\ rpc = "inline"
    /\ node = El("b", <<Text(S_AandB)>>)
    /\ inl = S_bAandB

-----------------------------------------------------------------------------
(* C2 *)

RECURSIVE AllTextBlank(_)
\* every text leaf of n is empty or white space
AllTextBlank(n) ==
    IF n.kind = "text" THEN Strip(n.text) = <<>>
    ELSE \A i \in 1..Len(n.kids) : AllTextBlank(n.kids[i])

RECURSIVE AllTextEmpty(_)
\* every text leaf of n is empty
AllTextEmpty(n) ==
    IF n.kind = "text" THEN n.text = <<>>
    ELSE \A i \in 1..Len(n.kids) : AllTextEmpty(n.kids[i])

\* s holds an opening tag directly followed by a closing tag
HasEmptyPair(s) ==
    \E i \in 2..Len(s) :
        /\ s[i] = ">" /\ s[i - 1] # "/"
        /\ HasAt(s, i + 1, <<"<", "/">>)
        /\ LET open == CHOOSE j \in 1..i : s[j] = "<" /\ \A k \in (j + 1)..i : s[k] # "<"
           IN  s[open + 1] # "/"

\* an element with no br, hr or img in it, whose own text children are white
\* space and whose deeper text leaves are empty
Barren(n) ==
    /\ n.kind = "tag"
    /\ ~HasElement(n, {"br", "hr", "img"})
    /\ \A i \in 1..Len(n.kids) :
           IF n.kids[i].kind = "text" THEN Strip(n.kids[i].text) = <<>>
           ELSE AllTextEmpty(n.kids[i])

\* C2 as stated: a node other than hr whose text leaves are all empty or white
\* space gives no Block, and no fragment holds an empty tag pair, whatever its
\* other children are
C2_Original ==
    (rpc = "blocks" /\ node.kind = "tag" /\ node.name # "hr" /\ AllTextBlank(node)) =>
        /\ out = <<>>
        /\ \A k \in 1..Len(out) : ~HasEmptyPair(out[k])

\* C2 amended: an element with no br, hr or img in it, whose text children are
\* white space and whose deeper text leaves are empty, gives no Block; and the
\* Blocks of a node with no img in it hold no empty tag pair
C2_BarrenNodeGivesNoBlock ==
    rpc = "blocks" =>
        /\ Barren(node) => out = <<>>
        /\ ~HasElement(node, {"img"}) => \A k \in 1..Len(out) : ~HasEmptyPair(out[k])

\* C2 witness: a div holding white space and an empty inline element gave no Block
C2_Witness ==
    /\ rpc = "blocks"
    /\ node.kind = "tag" /\ node.name = "div" /\ Barren(node)
    /\ \E i, j \in 1..Len(node.kids) :
           /\ node.kids[i].kind = "text" /\ node.kids[i].text # <<>>
           /\ node.kids[j].kind = "tag"
    /\ out = <<>>

-----------------------------------------------------------------------------
(* C5 *)

Reverse(s) == [i \in 1..Len(s) |-> s[Len(s) + 1 - i]]

Opt(cond, x) == IF cond THEN <<x>> ELSE <<>>

\* what a tag is: its name, with the name of its attribute if it has one
TagKind(tag) == IF HasAttr(tag) THEN TagName(tag) \o <<" ">> \o AttrName(tag) ELSE tag

\* an element around the single text leaf "x"
AroundX(n) == n.kind = "tag" /\ n.kids = <<Text(<<"x">>)>>

\* the wrappers of the output of an element around "x", innermost first
Wrappers(markup) ==
    LET tags == Scan(markup).tags
    IN  Reverse([i \in 1..(Len(tags) \div 2) |-> TagKind(tags[i])])

\* the output is the opening tags, "x", and the closing tags in reverse order
WellNested(markup) ==
    LET sc == Scan(markup)
        half == Len(sc.tags) \div 2
    IN  /\ sc.ok /\ sc.text = <<"x">> /\ Len(sc.tags) = 2 * half
        /\ \A i \in 1..half : sc.tags[Len(sc.tags) + 1 - i] = <<"/">> \o TagName(sc.tags[i])

StyleBold(n) == StyleHas(n.attrs.style, "font-weight") /\ StyleHas(n.attrs.style, "bold")

StyleItalic(n) == StyleHas(n.attrs.style, "font-style") /\ StyleHas(n.attrs.style, "italic")

StyleUnderline(n) ==
    StyleHas(n.attrs.style, "text-decoration") /\ StyleHas(n.attrs.style, "underline")

\* the wrappers that follow the style wrappers: sup/sub is not among them
OuterWrappers(n) ==
    Opt(n.name = "a" /\ n.attrs.href # <<>>, <<"a", " ", "h", "r", "e", "f">>)
    \o Opt(n.attrs.face # <<>> \/ n.attrs.dfont # <<>>, <<"f", "o", "n", "t", " ", "f", "a", "c", "e">>)
    \o Opt(n.name = "font" /\ n.attrs.color # <<>>,
           <<"f", "o", "n", "t", " ", "c", "o", "l", "o", "r">>)

\* C5 as stated: one wrapper of each kind, bold innermost, each condition the
\* disjunction of its tag, style and class triggers
WrappersAsStated(n) ==
    Opt(n.name \in {"b", "strong"} \/ StyleBold(n) \/ ClassHas(n.attrs.class, "bold"), <<"b">>)
    \o Opt(n.name \in {"i", "em"} \/ StyleItalic(n) \/ ClassHas(n.attrs.class, "italic"), <<"i">>)
    \o Opt(n.name = "u" \/ StyleUnderline(n) \/ ClassHas(n.attrs.class, "underline"), <<"u">>)
    \o Opt(n.name \in {"sup", "sub"}, Chars(IF n.name = "sub" THEN "sub" ELSE "sup"))
    \o OuterWrappers(n)

\* C5 amended: the triggers are three passes, each in the order bold, italic,
\* underline: by tag name (then sup/sub), by style, by class
WrappersAmended(n) ==
    Opt(n.name \in {"b", "strong"}, <<"b">>)
    \o Opt(n.name \in {"i", "em"}, <<"i">>)
    \o Opt(n.name = "u", <<"u">>)
    \o Opt(n.name \in {"sup", "sub"}, Chars(IF n.name = "sub" THEN "sub" ELSE "sup"))
    \o Opt(StyleBold(n), <<"b">>)
    \o Opt(StyleItalic(n), <<"i">>)
    \o Opt(StyleUnderline(n), <<"u">>)
    \o Opt(ClassHas(n.attrs.class, "bold"), <<"b">>)
    \o Opt(ClassHas(n.attrs.class, "italic"), <<"i">>)
    \o Opt(ClassHas(n.attrs.class, "underline"), <<"u">>)
    \o OuterWrappers(n)

\* C5 as stated: the wrappers around the content of an element, innermost first,
\* are bold, italic, underline, sup/sub, link, font face, font color, each at
\* most once, each present when its tag, style or class trigger holds
C5_Original ==
    (rpc = "inline" /\ AroundX(node)) =>
        WellNested(inl) /\ Wrappers(inl) = WrappersAsStated(node)

\* C5 amended: the wrappers around the content of an element, innermost first,
\* are those triggered by the tag name (bold, italic, underline, sup/sub), then
\* those triggered by the style (bold, italic, underline), then those triggered
\* by the classes (bold, italic, underline), then link, font face, font color; a
\* kind triggered twice is written twice
C5_WrappingOrder ==
    (rpc = "inline" /\ AroundX(node)) =>
        WellNested(inl) /\ Wrappers(inl) = WrappersAmended(node)

\* C5 witness: a link made bold, italic and underlined by its style and again by
\* its classes, with a font face, has been rendered
C5_Witness ==
    /\ rpc = "inline" /\ AroundX(node)
    /\ node.name = "a" /\ node.attrs.href # <<>> /\ node.attrs.face # <<>>
    /\ StyleBold(node) /\ StyleItalic(node) /\ StyleUnderline(node)
    /\ \A w \in {"bold", "italic", "underline"} : ClassHas(node.attrs.class, w)
    /\ Len(Wrappers(inl)) = 8

-----------------------------------------------------------------------------
(* C6 *)

Max(S) == CHOOSE x \in S : \A y \in S : x >= y

AlignWords == {"left", "center", "right", "justify"}

\* the alignment a Block gives its text: the align attribute of the tag that
\* holds the text (the last tag opened), left when that tag has none
ParagraphAlign(block) ==
    LET tags == Scan(block).tags
        holder == tags[Len(tags) \div 2]
    IN  IF HasAttr(holder) /\ AttrName(holder) = S_align THEN AttrValue(holder) ELSE Chars("left")

\* the rule of C6: the own alignment when it is center, right or justify, else
\* the inherited one
Effective(n, inherited) ==
    IF ExtractAlignment(n) \in {"C", "R", "J"} THEN ExtractAlignment(n) ELSE inherited

RECURSIVE DivPath(_)
\* the elements from a div down along its first children
DivPath(n) ==
    IF n.kind # "tag" THEN <<>>
    ELSE IF n.name = "div" /\ n.kids # <<>> THEN <<n>> \o DivPath(n.kids[1])
    ELSE <<n>>

\* the own alignment of the nearest element of the path that resolved to a value
\* other than left, the inherited alignment if there is none
NearestNonLeft(path, inherited) ==
    LET set == { i \in 1..Len(path) : ExtractAlignment(path[i]) # "L" }
    IN  IF set = {} THEN inherited ELSE ExtractAlignment(path[Max(set)])

\* a div of the nested family: its first child is the deeper chain, its second
\* the paragraph "y" with no alignment of its own
IsChain(n) ==
    /\ n.kind = "tag" /\ n.name = "div" /\ Len(n.kids) = 2
    /\ n.kids[2] = El("p", <<Text(<<"y">>)>>)

RECURSIVE ChainDepth(_)
ChainDepth(n) == IF IsChain(n) THEN 1 + ChainDepth(n.kids[1]) ELSE 0

S_divCenter == <<"<", "d", "i", "v", " ", "a", "l", "i", "g", "n", "=", "\"", "c", "e", "n",
                 "t", "e", "r", "\"", ">">>

S_pCenter == <<"<", "p", " ", "a", "l", "i", "g", "n", "=", "\"", "c", "e", "n", "t", "e", "r",
               "\"", ">">>

S_pDivClose == <<"<", "/", "p", ">", "<", "/", "d", "i", "v", ">">>

CenteredDiv == Tag("div", AlignCenter, <<El("p", <<Text(<<"x">>)>>), El("p", <<Text(<<"y">>)>>)>>)

\* C6: the alignment of an element is its own when that is center, right or
\* justify and the inherited one otherwise; a paragraph with no alignment of its
\* own under a chain of divs takes the alignment of the nearest div that resolved
\* to a value other than left, or the inherited one; the two paragraphs of a
\* centered div both come out with align="center"
C6_EffectiveAlignment ==
    rpc = "blocks" =>
        /\ (AroundX(node) /\ node.name \in {"p", "h3", "div"}) =>
               /\ Len(out) = 1
               /\ ParagraphAlign(out[1]) = Chars(AlignWord(Effective(node, inh)))
        /\ IsChain(node) =>
               LET path == DivPath(node)
                   depth == ChainDepth(node)
               IN  /\ Len(out) = depth + 1
                   /\ ParagraphAlign(out[1]) = Chars(AlignWord(NearestNonLeft(path, inh)))
                   /\ \A k \in 1..depth :
                          ParagraphAlign(out[Len(out) + 1 - k])
                              = Chars(AlignWord(NearestNonLeft(SubSeq(path, 1, k), inh)))
        /\ (node = CenteredDiv /\ inh = "L") =>
               out = << S_divCenter \o S_pCenter \o <<"x">> \o S_pDivClose,
                        S_divCenter \o S_pCenter \o <<"y">> \o S_pDivClose >>

\* C6 witness: the two paragraphs of a centered div have been rendered, and so
\* has a paragraph two divs below a right-aligned div
C6_Witness ==
    /\ rpc = "blocks"
    /\ \/ /\ node = CenteredDiv /\ inh = "L"
          /\ Len(out) = 2 /\ ParagraphAlign(out[2]) = Chars("center")
       \/ /\ IsChain(node) /\ ChainDepth(node) = 2 /\ inh = "J"
          /\ ExtractAlignment(node) = "R"
          /\ ExtractAlignment(node.kids[1]) = "L"
          /\ ExtractAlignment(node.kids[1].kids[1]) = "L"
          /\ ParagraphAlign(out[1]) = Chars("right")

-----------------------------------------------------------------------------
(* C7 *)

\* the alignment of the node alone as C7 states it: a text-align declaration, else
\* the align attribute, else the classes searched for center, then right, then
\* justify over the whole list; "" when none gives a value
OwnAsStated(n) ==
    LET st == n.attrs.style
        cl == n.attrs.class
        decl == { i \in 1..Len(st) : Lower(st[i].prop) = "text-align" /\ Lower(st[i].val) \in AlignWords }
    IN  IF decl # {} THEN Lower(st[Min(decl)].val)
        ELSE IF Lower(n.attrs.align) \in AlignWords THEN Lower(n.attrs.align)
        ELSE IF \E i \in 1..Len(cl) : Has(Lower(cl[i]), "center") THEN "center"
        ELSE IF \E i \in 1..Len(cl) : Has(Lower(cl[i]), "right") THEN "right"
        ELSE IF \E i \in 1..Len(cl) : Has(Lower(cl[i]), "justify") THEN "justify"
        ELSE ""

\* the alignment of the node alone, amended: the first declaration whose property
\* starts with text-align and whose value is recognized, else the align
\* attribute, else the first class that holds one of the three words (center
\* before right before justify within that class), else left
OwnAmended(n) ==
    LET st == n.attrs.style
        cl == n.attrs.class
        decl == { i \in 1..Len(st) :
                    StartsWithTextAlign(Lower(st[i].prop)) /\ Lower(st[i].val) \in AlignWords }
        hit == { i \in 1..Len(cl) :
                    \E w \in {"center", "right", "justify"} : Has(Lower(cl[i]), w) }
    IN  IF decl # {} THEN Lower(st[Min(decl)].val)
        ELSE IF Lower(n.attrs.align) \in AlignWords THEN Lower(n.attrs.align)
        ELSE IF hit # {}
        THEN LET c == Lower(cl[Min(hit)])
             IN  IF Has(c, "center") THEN "center" ELSE IF Has(c, "right") THEN "right" ELSE "justify"
        ELSE "left"

\* C7 as stated: the alignment used is the text-align value of the style, else
\* the align attribute, else the class match (center, right, justify over the
\* whole class list), else the inherited value
C7_Original ==
    (rpc = "blocks" /\ AroundX(node) /\ node.name \in {"p", "h3", "div"}) =>
        /\ Len(out) = 1
        /\ ParagraphAlign(out[1]) \in { Chars(w) : w \in AlignWords }
        /\ ParagraphAlign(out[1])
               = Chars(IF OwnAsStated(node) # "" THEN OwnAsStated(node) ELSE AlignWord(inh))

\* C7 amended: the node's own alignment is the first style declaration whose
\* property starts with text-align and whose value is recognized, else the align
\* attribute, else the first class in list order that holds center, right or
\* justify, else left; the alignment used is the own one unless that is left, and
\* then the inherited one; it is always one of the four values
C7_AlignmentPriority ==
    (rpc = "blocks" /\ AroundX(node) /\ node.name \in {"p", "h3", "div"}) =>
        /\ Len(out) = 1
        /\ ParagraphAlign(out[1]) \in { Chars(w) : w \in AlignWords }
        /\ ParagraphAlign(out[1])
               = Chars(IF OwnAmended(node) # "left" THEN OwnAmended(node) ELSE AlignWord(inh))

\* C7 witness: a paragraph whose classes are a right class followed by a center
\* class, with no style and no align attribute, came out right-aligned
C7_Witness ==
    /\ rpc = "blocks" /\ AroundX(node) /\ node.name = "p" /\ inh = "L"
    /\ node.attrs.class = <<"align-right", "text-center">>
    /\ StyleAlignment(node.attrs.style) = "" /\ node.attrs.align = ""
    /\ Len(out) = 1 /\ ParagraphAlign(out[1]) = Chars("right")

-----------------------------------------------------------------------------
(* C9 *)

S_liOpen == <<"<", "l", "i", ">">>

S_liClose == <<"<", "/", "l", "i", ">">>

RECURSIVE LiContents(_)
\* the contents of the <li> elements of a piece of markup, in order
LiContents(s) ==
    LET opens == { i \in 1..Len(s) : HasAt(s, i, S_liOpen) }
    IN  IF opens = {} THEN <<>>
        ELSE LET i == Min(opens)
                 j == Min({ k \in i..Len(s) : HasAt(s, k, S_liClose) })
             IN  << SubSeq(s, i + Len(S_liOpen), j - 1) >>
                 \o LiContents(SubSeq(s, j + Len(S_liClose), Len(s)))

\* the trimmed inline content of the direct li children that have some, in order
ItemsWithContent(n) ==
    LET lis == SelectSeq(n.kids, LAMBDA k : k.kind = "tag" /\ k.name = "li"
                                           /\ Strip(RenderKids(k.kids)) # <<>>)
    IN  [i \in 1..Len(lis) |-> Strip(RenderKids(lis[i].kids))]

RECURSIVE Flatten(_)
Flatten(ss) == IF ss = <<>> THEN <<>> ELSE Head(ss) \o Flatten(Tail(ss))

ListOfOneTwo ==
    El("ul", <<El("li", <<Text(S_One)>>), El("li", <<>>), El("li", <<Text(S_Two)>>)>>)

S_ulOneTwo ==
    <<"<", "u", "l", ">", "<", "l", "i", ">", "O", "n", "e", "<", "/", "l", "i", ">",
      "<", "l", "i", ">", "T", "w", "o", "<", "/", "l", "i", ">", "<", "/", "u", "l", ">">>

\* C9: a ul/ol gives at most one Block, none when no direct li child has content;
\* the Block holds one <li> per direct li child with content, in order, and is
\* wrapped in <div align=..> exactly when the alignment used is not left
C9_ListRendering ==
    (rpc = "blocks" /\ node.kind = "tag" /\ node.name \in {"ul", "ol"}) =>
        LET items == ItemsWithContent(node)
            eff == Effective(node, inh)
            open == <<"<">> \o Chars(node.name) \o <<">">>
            close == <<"<", "/">> \o Chars(node.name) \o <<">">>
            body == Flatten([i \in 1..Len(items) |-> S_liOpen \o items[i] \o S_liClose])
        IN  /\ Len(out) <= 1
            /\ (out = <<>>) <=> (items = <<>>)
            /\ out # <<>> =>
                   /\ LiContents(out[1]) = items
                   /\ IF eff = "L" THEN out[1] = open \o body \o close
                      ELSE out[1] = <<"<", "d", "i", "v", " ", "a", "l", "i", "g", "n", "=", "\"">>
                                    \o Chars(AlignWord(eff)) \o <<"\"", ">">>
                                    \o open \o body \o close \o <<"<", "/", "d", "i", "v", ">">>
            /\ (node = ListOfOneTwo /\ inh = "L") => out = << S_ulOneTwo >>

\* C9 witness: the list One, (empty), Two has been rendered to its two items
C9_Witness ==
    /\ rpc = "blocks" /\ node = ListOfOneTwo /\ inh = "L"
    /\ out = << S_ulOneTwo >>

-----------------------------------------------------------------------------
(* C10 *)

\* a Block inside <div align="word">
InAlignDiv(word, block) ==
    <<"<", "d", "i", "v", " ", "a", "l", "i", "g", "n", "=", "\"">> \o Chars(word) \o <<"\"", ">">>
    \o block \o <<"<", "/", "d", "i", "v", ">">>

\* C10 as stated: the child blocks of a div are wrapped in <div align=..> when
\* the div's resolved alignment differs from the inherited one, and passed
\* through unchanged when it equals it
C10_Original ==
    (rpc = "blocks" /\ node.kind = "tag" /\ node.name = "div") =>
        LET eff == Effective(node, inh)
            cb == ChildBlocks(node.kids, eff)
        IN  cb # <<>> =>
                out = IF eff # inh THEN [k \in 1..Len(cb) |-> InAlignDiv(AlignWord(eff), cb[k])]
                      ELSE cb

\* C10 amended: the child blocks of a div are wrapped in <div align=..> when the
\* div's resolved alignment is not left, also when it equals the inherited one,
\* and passed through unchanged only when it is left
C10_DivWrapping ==
    (rpc = "blocks" /\ node.kind = "tag" /\ node.name = "div") =>
        LET eff == Effective(node, inh)
            cb == ChildBlocks(node.kids, eff)
        IN  cb # <<>> =>
                out = IF eff # "L" THEN [k \in 1..Len(cb) |-> InAlignDiv(AlignWord(eff), cb[k])]
                      ELSE cb

\* C10 witness: a div with no alignment of its own, rendered with the inherited
\* alignment center, wrapped its paragraph in <div align="center">
C10_Witness ==
    /\ rpc = "blocks" /\ node.kind = "tag" /\ node.name = "div" /\ inh = "C"
    /\ ExtractAlignment(node) = "L"
    /\ Len(out) >= 1 /\ HasAt(out[1], 1, S_divCenter \o S_pCenter)

-----------------------------------------------------------------------------
(* C3 *)

\* C3: when the URL given has no piece that starts with a digit, no HTTP GET is
\* issued
C3_NoRequestWithoutStoryId ==
    ~HasStoryId(url) => gets = <<>>

-----------------------------------------------------------------------------
(* C4 *)

\* C4: the GETs after the overview are the parts in table-of-contents order,
\* one per part; a part GET that returns a blank body is the last GET of the
\* run, which has failed with the chapters before it and nothing written; a
\* PDF is written only after every part was fetched with a body that is not blank
C4_AllOrNothing ==
    /\ \A k \in 1..Len(gets) : (gets[k].kind = "overview") <=> (k = 1)
    /\ Len(gets) <= Len(parts) + 1
    /\ \A k \in 2..Len(gets) : gets[k].id = parts[k - 1].id
    /\ \A k \in 2..Len(gets) :
           gets[k].blank =>
               /\ k = Len(gets)
               /\ pc = "failed"
               /\ Len(chapters) = k - 2
               /\ ~written /\ pdf = <<>>
    /\ pc = "fetch" => Len(chapters) = Len(gets) - 1
    /\ written =>
           /\ Len(gets) = Len(parts) + 1
           /\ Len(chapters) = Len(parts)
           /\ \A k \in 2..Len(gets) : gets[k].status = "ok" /\ ~gets[k].blank

\* C4 witness: of two parts the first came back blank: the run has failed after
\* that one GET, with no chapter and nothing written
C4_Witness ==
    /\ Len(parts) = 2 /\ Len(gets) = 2
    /\ gets[2].kind = "part" /\ gets[2].status = "ok" /\ gets[2].blank
    /\ pc = "failed" /\ chapters = <<>> /\ ~written

-----------------------------------------------------------------------------
(* C8 *)

\* the number of fragments a chapter takes
ChapterSize(ch) == (IF ch.title # <<>> THEN 1 ELSE 0) + Len(ch.blocks) + 1

RECURSIVE FragmentsBefore(_, _)
\* the number of fragments that precede chapter k: the story title and the
\* chapters before it
FragmentsBefore(chs, k) ==
    IF k = 1 THEN 1 ELSE FragmentsBefore(chs, k - 1) + ChapterSize(chs[k - 1])

\* the fragment is <name align="center">..</name> around the escaped title
IsCenteredHeading(fragment, name, title) ==
    LET sc == Scan(fragment)
    IN  /\ sc.ok
        /\ sc.tags = << name \o <<" ", "a", "l", "i", "g", "n", "=", "\"", "c", "e", "n", "t",
                                  "e", "r", "\"">>, <<"/">> \o name >>
        /\ Head(fragment) = "<" /\ fragment[Len(fragment)] = ">"
        /\ EntitiesOk(sc.text, {S_amp, S_lt, S_gt, S_quot, S_apos})
        /\ Unescape(sc.text) = title

\* C8: the fragments are the centered <h1> title, then for each chapter in order
\* its centered <h2> heading if it has a title, its Blocks in order and one
\* "<br/>"; the chapters are those of the table of contents, in its order
C8_DocumentAssembly ==
    written =>
        LET n == Len(chapters)
        IN  /\ n = Len(parts)
            /\ \A k \in 1..n : chapters[k].title = MainPartTitle(parts[k])
                               /\ gets[k + 1].id = parts[k].id
            /\ Len(pdf) = FragmentsBefore(chapters, n) + ChapterSize(chapters[n])
            /\ IsCenteredHeading(pdf[1], <<"h", "1">>, storyTitle)
            /\ \A k \in 1..n :
                   LET ch == chapters[k]
                       at == FragmentsBefore(chapters, k)
                       titled == IF ch.title # <<>> THEN 1 ELSE 0
                   IN  /\ titled = 1 => IsCenteredHeading(pdf[at + 1], <<"h", "2">>, ch.title)
                       /\ \A m \in 1..Len(ch.blocks) : pdf[at + titled + m] = ch.blocks[m]
                       /\ pdf[at + ChapterSize(ch)] = <<"<", "b", "r", "/", ">">>

\* C8 witness: a document has been written from a chapter with no title and a
\* chapter with a title and several Blocks
C8_Witness ==
    /\ written
    /\ \E k \in 1..Len(chapters) : chapters[k].title = <<>>
    /\ \E k \in 1..Len(chapters) : chapters[k].title # <<>> /\ Len(chapters[k].blocks) >= 2

=============================================================================
